---- MODULE Spec2Model ----
(***************************************************************************)
(* A model of the labyru maze library: the per-shape wall tables and shape *)
(* dispatch (maze/src/shape), the maze aggregate (src/lib.rs), the clear   *)
(* initialiser (maze/src/initialize/clear.rs) and the Voronoi initialiser  *)
(* (tools/src/voronoi/initialize.rs).                                      *)
(*                                                                         *)
(* Positions are pairs <<col, row>>.  A wall is its index into the shape's *)
(* walls::ALL table (0-based as in the source); a wall position is a       *)
(* record [pos, wall].  Angles are counted in units of D = PI / 6 and      *)
(* physical hex coordinates in units of (cos 30, 1/2), which makes every   *)
(* centre and every corner point of a hexagon an integer pair.             *)
(***************************************************************************)
EXTENDS Integers, Sequences, FiniteSets, TLC

\* ------------------------------------------------------------------ bounds
Width == 2
Height == 3
MaxOps == 2
RandLevels == 3
StreamLen == 4
MaxMethods == 2
MaxWalk == 20
MaxPairs == 3
MaxThreads == 2
MaxPrepare == 1
MaxDistance == 5

\* ------------------------------------------------------------------ shapes
Shapes == {"Hex", "Quad", "Tri"}

NoWall == 0 - 1

\* Bitwise helpers on small naturals: wall ^ 0b0001, wall ^ 0b0010,
\* wall ^ 0b0011 and pos.row & 1.
Xor1(i) == IF i % 2 = 0 THEN i + 1 ELSE i - 1
Xor2(i) == IF (i \div 2) % 2 = 0 THEN i + 2 ELSE i - 2
Xor3(i) == 4 * (i \div 4) + (3 - (i % 4))
Odd(n) == n % 2 = 1

\* The hex wall table, in declaration order (the index is the position in
\* the declaration).  corner: <<dcol, drow, wall index>>.
HexWalls ==
  << [name |-> "LEFT0",       dir |-> <<0 - 1, 0>>,     span |-> <<5, 7>>,
      corner |-> << <<0 - 1, 0, 7>>, <<0, 1, 10>> >>],
     [name |-> "RIGHT0",      dir |-> <<1, 0>>,         span |-> <<11, 13>>,
      corner |-> << <<1, 0, 4>>, <<1, 0 - 1, 9>> >>],
     [name |-> "LEFT1",       dir |-> <<0 - 1, 0>>,     span |-> <<5, 7>>,
      corner |-> << <<0 - 1, 0, 5>>, <<0 - 1, 1, 8>> >>],
     [name |-> "RIGHT1",      dir |-> <<1, 0>>,         span |-> <<11, 13>>,
      corner |-> << <<1, 0, 6>>, <<0, 0 - 1, 11>> >>],
     [name |-> "UP_LEFT0",    dir |-> <<0, 0 - 1>>,     span |-> <<7, 9>>,
      corner |-> << <<0, 0 - 1, 9>>, <<0 - 1, 0, 8>> >>],
     [name |-> "DOWN_RIGHT1", dir |-> <<0, 1>>,         span |-> <<1, 3>>,
      corner |-> << <<0, 1, 8>>, <<1, 0, 2>> >>],
     [name |-> "UP_LEFT1",    dir |-> <<0 - 1, 0 - 1>>, span |-> <<7, 9>>,
      corner |-> << <<0 - 1, 0 - 1, 11>>, <<0 - 1, 0, 3>> >>],
     [name |-> "DOWN_RIGHT0", dir |-> <<1, 1>>,         span |-> <<1, 3>>,
      corner |-> << <<1, 1, 10>>, <<1, 0, 0>> >>],
     [name |-> "UP_RIGHT0",   dir |-> <<1, 0 - 1>>,     span |-> <<9, 11>>,
      corner |-> << <<1, 0 - 1, 2>>, <<0, 0 - 1, 5>> >>],
     [name |-> "DOWN_LEFT1",  dir |-> <<0 - 1, 1>>,     span |-> <<3, 5>>,
      corner |-> << <<0 - 1, 1, 1>>, <<0, 1, 4>> >>],
     [name |-> "UP_RIGHT1",   dir |-> <<0, 0 - 1>>,     span |-> <<9, 11>>,
      corner |-> << <<0, 0 - 1, 0>>, <<0 - 1, 0 - 1, 7>> >>],
     [name |-> "DOWN_LEFT0",  dir |-> <<0, 1>>,         span |-> <<3, 5>>,
      corner |-> << <<0, 1, 3>>, <<1, 1, 6>> >>] >>

\* The walls for even rows and for odd rows, clockwise.
ALL0 == <<0, 4, 8, 1, 7, 11>>
ALL1_typo == <<2, 6, 10, 3, 7, 9>>
ALL1 == <<2, 6, 10, 3, 5, 9>>

hex_back_index_flip2(wall) == Xor2(wall)
hex_back_index(wall) == Xor1(wall)

hex_opposite_always3(wall) == Xor3(wall)
hex_opposite(wall) == IF wall \div 4 = 0 THEN Xor1(wall) ELSE Xor3(wall)

hex_walls(pos) == IF Odd(pos[2]) THEN ALL1 ELSE ALL0

\* center(pos): x in units of cos 30 (HORIZONTAL_MULTIPLICATOR = 2 units),
\* y in units of 1/2 (VERTICAL_MULTIPLICATOR = 3 units, offset 1.0 = 2).
hex_center(pos) ==
  << (2 * pos[1]) + (IF Odd(pos[2]) THEN 1 ELSE 2), (3 * pos[2]) + 2 >>

\* The quadrilateral table: UP, LEFT, DOWN, RIGHT.
QuadWalls ==
  << [name |-> "UP",    dir |-> <<0, 0 - 1>>],
     [name |-> "LEFT",  dir |-> <<0 - 1, 0>>],
     [name |-> "DOWN",  dir |-> <<0, 1>>],
     [name |-> "RIGHT", dir |-> <<1, 0>>] >>

QUAD_ALL == <<0, 1, 2, 3>>
quad_back_index(wall) == Xor2(wall)
quad_opposite(wall) == (wall + 2) % 4
quad_walls(pos) == QUAD_ALL

\* The triangular table: LEFT0, RIGHT1, LEFT1, RIGHT0, UP, DOWN.
TriWalls ==
  << [name |-> "LEFT0",  dir |-> <<0 - 1, 0>>],
     [name |-> "RIGHT1", dir |-> <<1, 0>>],
     [name |-> "LEFT1",  dir |-> <<0 - 1, 0>>],
     [name |-> "RIGHT0", dir |-> <<1, 0>>],
     [name |-> "UP",     dir |-> <<0, 0 - 1>>],
     [name |-> "DOWN",   dir |-> <<0, 1>>] >>

TRI_ALL0 == <<0, 3, 5>>
TRI_ALL1 == <<2, 4, 1>>
tri_back_index(wall) == Xor1(wall)
tri_opposite(wall) == NoWall
tri_walls(pos) == IF Odd(pos[1] + pos[2]) THEN TRI_ALL1 ELSE TRI_ALL0

\* ---------------------------------------------------------- shape dispatch
WallTable(s) ==
  CASE s = "Hex" -> HexWalls [] s = "Quad" -> QuadWalls [] OTHER -> TriWalls

all_walls(s) == 0 .. (Len(WallTable(s)) - 1)

dir(s, wall) == WallTable(s)[wall + 1].dir

back_index(s, wall) ==
  CASE s = "Hex" -> hex_back_index(wall)
    [] s = "Quad" -> quad_back_index(wall)
    [] OTHER -> tri_back_index(wall)

walls(s, pos) ==
  CASE s = "Hex" -> hex_walls(pos)
    [] s = "Quad" -> quad_walls(pos)
    [] OTHER -> tri_walls(pos)

Range(seq) == {seq[i] : i \in 1 .. Len(seq)}

WallsOf(s, pos) == Range(walls(s, pos))

WallPos(pos, wall) == [pos |-> pos, wall |-> wall]

back(s, wp) ==
  WallPos(<<wp.pos[1] + dir(s, wp.wall)[1], wp.pos[2] + dir(s, wp.wall)[2]>>,
          back_index(s, wp.wall))

opposite(s, wp) ==
  CASE s = "Hex" -> hex_opposite(wp.wall)
    [] s = "Quad" -> quad_opposite(wp.wall)
    [] OTHER -> tri_opposite(wp.wall)

\* The unit vector at angle a * D for odd a, in units of (cos 30, 1/2).
UnitAt(a) ==
  CASE a % 12 = 1 -> <<1, 1>>
    [] a % 12 = 3 -> <<0, 2>>
    [] a % 12 = 5 -> <<0 - 1, 1>>
    [] a % 12 = 7 -> <<0 - 1, 0 - 1>>
    [] a % 12 = 9 -> <<0, 0 - 2>>
    [] OTHER -> <<1, 0 - 1>>

\* The corner point at the start of the span of a hex wall position:
\* center.x + wall.span.0.dx, center.y + wall.span.0.dy.
SpanStartPoint(wp) ==
  << hex_center(wp.pos)[1] + UnitAt(HexWalls[wp.wall + 1].span[1])[1],
     hex_center(wp.pos)[2] + UnitAt(HexWalls[wp.wall + 1].span[1])[2] >>

\* corner_walls(wall_pos): the wall position itself followed by the wall
\* positions its corner_wall_offsets name.
corner_walls(wp) ==
  <<wp>> \o
  [i \in 1 .. Len(HexWalls[wp.wall + 1].corner) |->
     WallPos(<<wp.pos[1] + HexWalls[wp.wall + 1].corner[i][1],
               wp.pos[2] + HexWalls[wp.wall + 1].corner[i][2]>>,
             HexWalls[wp.wall + 1].corner[i][3])]

\* ------------------------------------------------------------------- state
VARIABLES
  shape,      \* Maze::shape
  rooms,      \* Maze::rooms: position -> set of open wall indices (the mask)
  nops,       \* number of mutating calls made so far
  arg,        \* the wall position a shape function was last applied to
  op,         \* the shape function last applied
  res,        \* its result (wall = NoWall for an absent result)
  pc,         \* position in Methods::initialize
  methods,    \* Methods::methods
  stream,     \* the outputs of the random source, read cyclically
  ridx,       \* number of outputs of the random source consumed
  filter,     \* the caller's filter: the set of positions it accepts
  assignment, \* the matrix returned by Methods::matrix
  edgemap,    \* the map built by Methods::edges: <<k1, k2>> -> wall positions
  todo,       \* keys of edgemap the connector loop has not visited
  mi,         \* index of the next method to apply
  conn,       \* wall positions opened by the connector loop
  run,        \* 1 in the first run of initialize, 2 in a repeated run
  first,      \* the result of the first run, once a repeated run has begun
  yielded,    \* the wall positions a Follower has yielded so far
  finished,   \* Follower::finished
  point,      \* the physical position a query was last applied to
  angle,      \* the angle of that position from the centre of the room arg.pos
  radius,     \* its distance from that centre, in hundredths
  value,      \* the value passed to the set_open call last recorded
  pairs,      \* create_heatmap: the collected (from, to) pairs
  threads,    \* rayon::current_num_threads()
  partials,   \* the heat maps of the chunks not yet reduced
  rect,       \* rooms_touched_by: <<left, top, right, bottom>> of the rectangle
  startPos,   \* the centre position of surround, the start room of rooms_touched_by
  distance,   \* the distance of the ring
  resultVec   \* the positions yielded or collected so far

mazeVars == <<rooms, nops>>
shapeVars == <<arg, op, res>>
vorVars == <<pc, methods, stream, ridx, filter, assignment, edgemap, todo, mi,
             conn, run, first>>
followVars == <<yielded, finished>>
physVars == <<point, angle, radius>>
callVars == <<value>>
heatVars == <<pairs, threads, partials>>
touchVars == <<rect, startPos, distance, resultVec>>
vars == <<shape, rooms, nops, arg, op, res, pc, methods, stream, ridx, filter,
          assignment, edgemap, todo, mi, conn, run, first, yielded, finished,
          point, angle, radius, value, pairs, threads, partials,
          rect, startPos, distance, resultVec>>

\* ------------------------------------------------------------------ matrix
\* Matrix::positions: every position of a width x height matrix.
positions == (0 .. (Width - 1)) \X (0 .. (Height - 1))

\* Matrix::is_inside
is_inside(pos) ==
  /\ pos[1] >= 0 /\ pos[1] < Width
  /\ pos[2] >= 0 /\ pos[2] < Height

\* The positions callers pass: the matrix and the ring of positions around it.
PosArea == ((0 - 1) .. Width) \X ((0 - 1) .. Height)

\* Both rooms of a wall are inside the matrix.
BothInside(s, wp) == is_inside(wp.pos) /\ is_inside(back(s, wp).pos)

\* Maze::new: all rooms closed.
NewRooms == [pos \in positions |-> {}]

\* Room::is_open / Room::set_open on the mask of one room.
room_is_open(mask, wall) == wall \in mask
room_set_open(mask, wall, v) ==
  IF v THEN mask \cup {wall} ELSE mask \ {wall}

\* ---------------------------------------------------------- maze aggregate
is_open(rs, wp) ==
  IF is_inside(wp.pos) THEN room_is_open(rs[wp.pos], wp.wall) ELSE FALSE

FirstWallTo(s, pos1, pos2) ==
  SelectSeq(walls(s, pos1),
            LAMBDA w : <<pos1[1] + dir(s, w)[1], pos1[2] + dir(s, w)[2]>> = pos2)

connected_no_self(rs, s, pos1, pos2) ==
  IF Len(FirstWallTo(s, pos1, pos2)) > 0
    THEN is_open(rs, WallPos(pos1, FirstWallTo(s, pos1, pos2)[1]))
    ELSE FALSE

connected(rs, s, pos1, pos2) ==
  IF pos1 = pos2 THEN TRUE
  ELSE LET found == FirstWallTo(s, pos1, pos2) IN
    IF Len(found) > 0 THEN is_open(rs, WallPos(pos1, found[1])) ELSE FALSE

SetRoom_close_all(rs, wp, v) ==
  IF is_inside(wp.pos)
    THEN [rs EXCEPT ![wp.pos] = IF v THEN rs[wp.pos] \cup {wp.wall} ELSE {}]
    ELSE rs

SetRoom(rs, wp, v) ==
  IF is_inside(wp.pos)
    THEN [rs EXCEPT ![wp.pos] = room_set_open(rs[wp.pos], wp.wall, v)]
    ELSE rs

set_open_one_side(rs, s, wp, v) == SetRoom(rs, wp, v)

set_open(rs, s, wp, v) ==
  SetRoom(SetRoom(rs, wp, v), back(s, wp), v)

open(rs, s, wp) == set_open(rs, s, wp, TRUE)
close(rs, s, wp) == set_open(rs, s, wp, FALSE)

\* ------------------------------------------------- specification: the maze
NoArg == WallPos(<<0, 0>>, 0)
NoFirst == [assignment |-> <<>>, conn |-> {}]

NoWalk == yielded = <<>> /\ finished = FALSE
NoPoint == point = <<0, 0>> /\ angle = 0 /\ radius = 0 /\ value = FALSE
NoHeat == pairs = <<>> /\ threads = 1 /\ partials = <<>>
NoTouch ==
  rect = <<0, 0, 0, 0>> /\ startPos = <<0, 0>> /\ distance = 0 /\ resultVec = <<>>

VorIdle ==
  /\ pc = "idle" /\ methods = <<>> /\ stream = <<>> /\ ridx = 0
  /\ filter = {} /\ assignment = <<>> /\ edgemap = <<>> /\ todo = {}
  /\ mi = 0 /\ conn = {} /\ run = 1 /\ first = NoFirst

Init ==
  /\ shape \in Shapes
  /\ rooms = NewRooms
  /\ nops = 0
  /\ arg = NoArg /\ op = "none" /\ res = NoArg
  /\ VorIdle /\ NoWalk /\ NoPoint /\ NoHeat /\ NoTouch

\* Callers take the wall of a wall position from walls(pos), for positions
\* inside the matrix and around it.
CallArgs(s) == {WallPos(pos, wall) : pos \in PosArea, wall \in all_walls(s)}
WallPositions(s) == {wp \in CallArgs(s) : wp.wall \in WallsOf(s, wp.pos)}

SetOpen ==
  /\ nops < MaxOps
  /\ \E wp \in WallPositions(shape), v \in BOOLEAN :
       rooms' = set_open(rooms, shape, wp, v)
  /\ nops' = nops + 1
  /\ UNCHANGED <<shape, shapeVars, vorVars, followVars, physVars, callVars, heatVars,
               touchVars>>

Open ==
  /\ nops < MaxOps
  /\ \E wp \in WallPositions(shape) : rooms' = open(rooms, shape, wp)
  /\ nops' = nops + 1
  /\ UNCHANGED <<shape, shapeVars, vorVars, followVars, physVars, callVars, heatVars,
               touchVars>>

Close ==
  /\ nops < MaxOps
  /\ \E wp \in WallPositions(shape) : rooms' = close(rooms, shape, wp)
  /\ nops' = nops + 1
  /\ UNCHANGED <<shape, shapeVars, vorVars, followVars, physVars, callVars, heatVars,
               touchVars>>

Next == SetOpen \/ Open \/ Close

Spec == Init /\ [][Next]_vars

\* ------------------------------------- specification: the shape functions
ShapeInit ==
  /\ shape \in Shapes
  /\ rooms = NewRooms /\ nops = 0
  /\ arg \in CallArgs(shape)
  /\ op = "none"
  /\ res = arg
  /\ VorIdle /\ NoWalk /\ NoPoint /\ NoHeat /\ NoTouch

Back ==
  /\ res.wall # NoWall
  /\ back(shape, res).pos \in PosArea
  /\ arg' = res
  /\ res' = back(shape, res)
  /\ op' = "back"
  /\ UNCHANGED <<shape, mazeVars, vorVars, followVars, physVars, callVars, heatVars,
               touchVars>>

Opposite ==
  /\ res.wall # NoWall
  /\ arg' = res
  /\ res' = WallPos(res.pos, opposite(shape, res))
  /\ op' = "opposite"
  /\ UNCHANGED <<shape, mazeVars, vorVars, followVars, physVars, callVars, heatVars,
               touchVars>>

CornerWalls ==
  /\ shape = "Hex"
  /\ res.wall # NoWall
  /\ \E i \in 2 .. Len(corner_walls(res)) :
       /\ corner_walls(res)[i].pos \in PosArea
       /\ res' = corner_walls(res)[i]
  /\ arg' = res
  /\ op' = "corner_walls"
  /\ UNCHANGED <<shape, mazeVars, vorVars, followVars, physVars, callVars, heatVars,
               touchVars>>

ShapeNext == Back \/ Opposite \/ CornerWalls

ShapeSpec == ShapeInit /\ [][ShapeNext]_vars

\* ---------------------------------------------------------- random source
\* Randomizer::random: the next output, a level r standing for r / RandLevels.
random(i) == stream[(i % Len(stream)) + 1]

\* Randomizer::range(low, high) computed from the output r.
range(low, high, r) == low + ((r * (high - low)) \div RandLevels)

\* ------------------------------------------------------------- strategies
Strategies == {"clear", "random_wall"}

\* Matrix::positions as a sequence, row by row.
PosSeq == [i \in 1 .. (Width * Height) |-> <<(i - 1) % Width, (i - 1) \div Width>>]

\* Maze::wall_positions(pos) for every pos of a set of positions.
WallPositionsIn(s, ps) ==
  UNION {{WallPos(pos, w) : w \in WallsOf(s, pos)} : pos \in ps}

\* The room on the other side of a wall position, and the wall positions
\* with both rooms inside the maze.
Towards(s, wp) == <<wp.pos[1] + dir(s, wp.wall)[1], wp.pos[2] + dir(s, wp.wall)[2]>>

InnerOf ==
  [s \in Shapes |-> {wp \in WallPositionsIn(s, positions) : is_inside(Towards(s, wp))}]

InnerWallPositions(s) == InnerOf[s]

\* The inner loop of clear::initialize: for every wall of pos, a room of the
\* maze, from the i-th on, open the back when it lies in a candidate room.
RECURSIVE OpenWalls(_, _, _, _, _)
OpenWalls(rs, s, cand, pos, i) ==
  IF pos \notin DOMAIN rs \/ i > Len(walls(s, pos)) THEN rs
  ELSE LET b == back(s, WallPos(pos, walls(s, pos)[i]))
       IN OpenWalls(IF b.pos \in cand THEN open(rs, s, b) ELSE rs, s, cand, pos, i + 1)

\* The outer loop of clear::initialize over the candidate rooms ps, in order.
RECURSIVE OpenEach(_, _, _, _)
OpenEach(rs, s, cand, ps) ==
  IF ps = <<>> THEN rs
  ELSE OpenEach(OpenWalls(rs, s, cand, Head(ps), 1), s, cand, Tail(ps))

clear_initialize_unfiltered(rs, s, cand) ==
  IF cand = {} THEN rs
  ELSE OpenEach(rs, s, positions, SelectSeq(PosSeq, LAMBDA pos : pos \in cand))

\* clear::initialize: for every candidate room and every wall of it whose
\* back is in a candidate room, open the back.
clear_initialize(rs, s, cand) ==
  IF cand = {} THEN rs
  ELSE OpenEach(rs, s, cand, SelectSeq(PosSeq, LAMBDA pos : pos \in cand))

\* A strategy that draws from the random source: it draws a candidate room
\* and one of its walls and opens the wall when it leads to a candidate room.
CandSeq(cand) == SelectSeq(PosSeq, LAMBDA pos : pos \in cand)

RandomRoom(cand, i) == CandSeq(cand)[range(0, Len(CandSeq(cand)), random(i)) + 1]

RandomWall(s, cand, i) ==
  WallPos(RandomRoom(cand, i),
          walls(s, RandomRoom(cand, i))
            [range(0, Len(walls(s, RandomRoom(cand, i))), random(i + 1)) + 1])

random_wall_initialize(rs, s, cand, i) ==
  IF cand = {} THEN rs
  ELSE IF back(s, RandomWall(s, cand, i)).pos \in cand
    THEN open(rs, s, RandomWall(s, cand, i))
    ELSE rs

\* Maze::initialize_filter: the maze a method returns and the number of
\* outputs of the random source it consumes.
initialize_filter(method, rs, s, cand, i) ==
  IF method = "clear" THEN clear_initialize(rs, s, cand)
  ELSE random_wall_initialize(rs, s, cand, i)

Draws(method, cand) == IF method = "clear" \/ cand = {} THEN 0 ELSE 2

\* ---------------------------------------------------------------- Voronoi
SetMin(S) == CHOOSE x \in S : \A y \in S : x <= y
SetMax(S) == CHOOSE x \in S : \A y \in S : y <= x

\* Physical units per shape: hex x in cos 30 and y in 1/2 (see hex_center);
\* quad x and y in half a room side.
quad_center(pos) == <<(2 * pos[1]) + 1, (2 * pos[2]) + 1>>

center(s, pos) == IF s = "Hex" THEN hex_center(pos) ELSE quad_center(pos)

\* Squared length of (dx, dy) in a common unit: a hex x unit is sqrt(3) hex
\* y units.
Dist2(s, dx, dy) == IF s = "Hex" THEN (3 * dx * dx) + (dy * dy) ELSE (dx * dx) + (dy * dy)

\* Shape::viewbox: the bounding box of the span-start corner points of the
\* rooms of the first and the last column, as <<left, top, width, height>>.
HexCornerPoints ==
  {SpanStartPoint(wp) :
     wp \in WallPositionsIn("Hex", {0, Width - 1} \X (0 .. (Height - 1)))}

hex_viewbox ==
  << SetMin({pt[1] : pt \in HexCornerPoints}),
     SetMin({pt[2] : pt \in HexCornerPoints}),
     SetMax({pt[1] : pt \in HexCornerPoints}) - SetMin({pt[1] : pt \in HexCornerPoints}),
     SetMax({pt[2] : pt \in HexCornerPoints}) - SetMin({pt[2] : pt \in HexCornerPoints}) >>

quad_viewbox == <<0, 0, 2 * Width, 2 * Height>>

viewbox(s) == IF s = "Hex" THEN hex_viewbox ELSE quad_viewbox

\* Methods::matrix: the site of method i, drawn from outputs 3i, 3i+1, 3i+2
\* after the cursor base.  Coordinates are scaled by RandLevels, the weight
\* random() + 0.5 by 2 * RandLevels.
Site(s, base, i) ==
  [x |-> (viewbox(s)[1] * RandLevels) + (random(base + (3 * i)) * viewbox(s)[3]),
   y |-> (viewbox(s)[2] * RandLevels) + (random(base + (3 * i) + 1) * viewbox(s)[4]),
   weight |-> (2 * random(base + (3 * i) + 2)) + RandLevels]

\* Squared distance of the centre of pos to a site, and the comparison of
\* distance / weight between two sites.
SiteDist2(s, site, pos) ==
  Dist2(s, (center(s, pos)[1] * RandLevels) - site.x,
           (center(s, pos)[2] * RandLevels) - site.y)

Closer(s, a, b, pos) ==
  (SiteDist2(s, a, pos) * b.weight * b.weight) < (SiteDist2(s, b, pos) * a.weight * a.weight)

\* voronoi::matrix: each room gets the index of the first site that minimises
\* distance / weight; without sites every room keeps the initial value 0.
voronoi_matrix(s, n, base) ==
  LET sites == [i \in 0 .. (n - 1) |-> Site(s, base, i)] IN
  [pos \in positions |->
     IF n = 0 THEN 0
     ELSE CHOOSE i \in 0 .. (n - 1) :
       \A j \in 0 .. (n - 1) :
         \/ j = i
         \/ Closer(s, sites[i], sites[j], pos)
         \/ (i < j /\ ~Closer(s, sites[j], sites[i], pos))]

\* Methods::edges: the entries <<key, wall position>> and the map they build.
EdgeEntries_same_region(s, m) ==
  {e \in {IF m[wp.pos] < m[back(s, wp).pos]
            THEN <<m[wp.pos], m[back(s, wp).pos], wp>>
            ELSE <<m[back(s, wp).pos], m[wp.pos], back(s, wp)>> :
          wp \in InnerWallPositions(s)} :
     e[1] = e[2]}

EdgeEntries(s, m) ==
  {e \in {IF m[wp.pos] < m[back(s, wp).pos]
            THEN <<m[wp.pos], m[back(s, wp).pos], wp>>
            ELSE <<m[back(s, wp).pos], m[wp.pos], back(s, wp)>> :
          wp \in InnerWallPositions(s)} :
     e[1] # e[2]}

edges_skip_first_column(s, m) ==
  LET entries == {e \in EdgeEntries(s, m) : e[3].pos[1] # 0} IN
  [key \in {<<e[1], e[2]>> : e \in entries} |->
     {e[3] : e \in {x \in entries : <<x[1], x[2]>> = key}}]

edges(s, m) ==
  LET entries == EdgeEntries(s, m) IN
  [key \in {<<e[1], e[2]>> : e \in entries} |->
     {e[3] : e \in {x \in entries : <<x[1], x[2]>> = key}}]

\* Collecting a HashSet into a Vec: the members in an order the hasher
\* decides.  The orders modelled are the rotations of the sorted order.
Rank(wp) == (((wp.pos[2] * Width) + wp.pos[1]) * 12) + wp.wall

RECURSIVE Sorted(_)
Sorted(wps) ==
  IF wps = {} THEN <<>>
  ELSE LET m == CHOOSE x \in wps : \A y \in wps : Rank(x) <= Rank(y)
       IN <<m>> \o Sorted(wps \ {m})

Collected(wps, h) ==
  LET sorted == Sorted(wps) IN
  [i \in 1 .. Len(sorted) |-> sorted[((i - 1 + h) % Len(sorted)) + 1]]

\* ------------------------------------ specification: Methods::initialize
Streams == [1 .. StreamLen -> 0 .. (RandLevels - 1)]
MethodLists == UNION {[1 .. n -> Strategies] : n \in 0 .. MaxMethods}
Filters == {positions, positions \ {<<0, 0>>}}

VorInit ==
  /\ shape \in {"Quad", "Hex"}
  /\ rooms = NewRooms /\ nops = 0
  /\ arg = NoArg /\ op = "none" /\ res = NoArg
  /\ pc = "matrix"
  /\ methods \in MethodLists
  /\ stream \in Streams
  /\ ridx = 0
  /\ filter \in Filters
  /\ assignment = <<>> /\ edgemap = <<>> /\ todo = {}
  /\ mi = 0 /\ conn = {} /\ run = 1 /\ first = NoFirst
  /\ NoWalk /\ NoPoint /\ NoHeat /\ NoTouch

\* let matrix = self.matrix(&maze, rng);
VMatrix ==
  /\ pc = "matrix"
  /\ assignment' = voronoi_matrix(shape, Len(methods), ridx)
  /\ ridx' = ridx + (3 * Len(methods))
  /\ pc' = "edges"
  /\ UNCHANGED <<shape, mazeVars, shapeVars, followVars, physVars, callVars, heatVars,
               methods, stream, filter, edgemap,
               todo, mi, conn, run, first, touchVars>>

\* let edges = self.edges(&maze, &matrix);
VEdges ==
  /\ pc = "edges"
  /\ edgemap' = edges(shape, assignment)
  /\ todo' = DOMAIN edgemap'
  /\ mi' = 0
  /\ pc' = IF Len(methods) > 0 THEN "methods"
           ELSE IF DOMAIN edges(shape, assignment) = {} THEN "done" ELSE "connect"
  /\ UNCHANGED <<shape, mazeVars, shapeVars, followVars, physVars, callVars, heatVars,
               methods, stream, ridx, filter,
               assignment, conn, run, first, touchVars>>

\* One step of the fold over the methods; after the last one the connector
\* loop follows, or the return when there is no boundary set:
\* maze.initialize_filter(method, rng, |pos| filter(pos) && matrix[pos] == i)
MethodFilter_other_regions(i) == {pos \in positions : pos \in filter /\ assignment[pos] # i}

MethodFilter(i) == {pos \in positions : pos \in filter /\ assignment[pos] = i}

VMethod ==
  /\ pc = "methods"
  /\ mi < Len(methods)
  /\ rooms' = initialize_filter(methods[mi + 1], rooms, shape, MethodFilter(mi), ridx)
  /\ ridx' = ridx + Draws(methods[mi + 1], MethodFilter(mi))
  /\ mi' = mi + 1
  /\ pc' = IF mi + 1 < Len(methods) THEN "methods"
           ELSE IF todo = {} THEN "done" ELSE "connect"
  /\ UNCHANGED <<shape, nops, shapeVars, followVars, physVars, callVars, heatVars,
               methods, stream, filter,
               assignment, edgemap, todo, conn, run, first, touchVars>>

\* One iteration of the connector loop, over the next value of the map in
\* the hasher's order: maze.open(wall_positions[rng.range(0, len)]); after
\* the last one initialize returns (matrix, maze).
Connector_back(key, h) ==
  back(shape, Collected(edgemap[key], h)
                [range(0, Cardinality(edgemap[key]), random(ridx)) + 1])

Connector(key, h) ==
  Collected(edgemap[key], h)
    [range(0, Cardinality(edgemap[key]), random(ridx)) + 1]

VConnect ==
  /\ pc = "connect"
  /\ \E key \in todo : \E h \in 0 .. (Cardinality(edgemap[key]) - 1) :
       LET wall_pos == Connector(key, h) IN
       /\ rooms' = open(rooms, shape, wall_pos)
       /\ conn' = conn \cup {wall_pos}
       /\ todo' = todo \ {key}
       /\ pc' = IF todo \ {key} = {} THEN "done" ELSE "connect"
  /\ ridx' = ridx + 1
  /\ UNCHANGED <<shape, nops, shapeVars, followVars, physVars, callVars, heatVars,
               methods, stream, filter,
               assignment, edgemap, mi, run, first, touchVars>>

VorNext == VMatrix \/ VEdges \/ VMethod \/ VConnect

VorSpec == VorInit /\ [][VorNext]_vars

\* ------------------- specification: Methods::initialize run a second time
\* A second run of initialize on the same maze, methods, filter and random
\* source; the result of the first run is kept for comparison.
VRerun ==
  /\ pc = "done"
  /\ run = 1
  /\ first' = [assignment |-> assignment, conn |-> conn]
  /\ run' = 2
  /\ rooms' = NewRooms
  /\ ridx' = 0
  /\ pc' = "matrix"
  /\ assignment' = <<>> /\ edgemap' = <<>> /\ todo' = {}
  /\ mi' = 0 /\ conn' = {}
  /\ UNCHANGED <<shape, nops, shapeVars, followVars, physVars, callVars, heatVars,
               methods, stream, filter, touchVars>>

TwoRunNext == VorNext \/ VRerun

TwoRunSpec == VorInit /\ [][TwoRunNext]_vars

\* ------------------------------------------ specification: following walls
\* Follower::next_wall_pos: of the wall positions in the corner where the
\* back of wall_pos starts, the first one that is not open; the back itself
\* when all of them are open.
next_wall_pos_back(rs, s, wp) == back(s, wp)

next_wall_pos(rs, s, wp) ==
  LET b == back(s, wp)
      closed == SelectSeq(Tail(corner_walls(b)), LAMBDA c : ~is_open(rs, c))
  IN IF Len(closed) > 0 THEN closed[1] ELSE b

FollowInit ==
  /\ shape = "Hex"
  /\ rooms = NewRooms /\ nops = 0
  /\ arg = NoArg /\ op = "none" /\ res = NoArg
  /\ VorIdle /\ NoWalk /\ NoPoint /\ NoHeat /\ NoTouch

\* The maze is prepared by open and close calls on walls between two rooms
\* of the maze before it is borrowed by a Follower.
PrepareOpen ==
  /\ op = "none"
  /\ nops < MaxOps
  /\ \E wp \in InnerWallPositions(shape) : rooms' = open(rooms, shape, wp)
  /\ nops' = nops + 1
  /\ UNCHANGED <<shape, shapeVars, vorVars, followVars, physVars, callVars, heatVars,
               touchVars>>

PrepareClose ==
  /\ op = "none"
  /\ nops < MaxOps
  /\ \E wp \in InnerWallPositions(shape) : rooms' = close(rooms, shape, wp)
  /\ nops' = nops + 1
  /\ UNCHANGED <<shape, shapeVars, vorVars, followVars, physVars, callVars, heatVars,
               touchVars>>

\* Maze::follow_wall(wall_pos): a Follower at wall_pos, nothing yielded yet.
FollowWall ==
  /\ op = "none"
  /\ \E wp \in WallPositionsIn(shape, positions) :
       /\ ~is_open(rooms, wp)
       /\ arg' = wp
       /\ res' = wp
  /\ op' = "follow_wall"
  /\ yielded' = <<>>
  /\ finished' = FALSE
  /\ UNCHANGED <<shape, mazeVars, vorVars, physVars, callVars, heatVars,
               touchVars>>

\* Follower::next: yield the current wall position, advance, and finish
\* when the walk is back at its start.
FollowerNext ==
  /\ op = "follow_wall"
  /\ ~finished
  /\ Len(yielded) < MaxWalk
  /\ yielded' = Append(yielded, res)
  /\ res' = next_wall_pos(rooms, shape, res)
  /\ finished' = (next_wall_pos(rooms, shape, res) = arg)
  /\ UNCHANGED <<shape, mazeVars, arg, op, vorVars, physVars, callVars, heatVars,
               touchVars>>

FreshFollowNext == FollowWall \/ FollowerNext

FreshFollowSpec == FollowInit /\ [][FreshFollowNext]_vars

FollowNext == PrepareOpen \/ PrepareClose \/ FollowWall \/ FollowerNext

FollowSpec == FollowInit /\ [][FollowNext]_vars

\* ------------------------------------------ specification: physical queries
\* Angles are counted in steps of 6 degrees: RADIAN_BOUND is 60 steps and the
\* span step D is 5 steps.  Lengths are counted in 1/100000, x divided by
\* HORIZONTAL_MULTIPLICATOR / 1.0 (the square root of 3), so that
\* HORIZONTAL_MULTIPLICATOR is 100000 and VERTICAL_MULTIPLICATOR is 150000.
RADIAN_BOUND == 60
D == 5
HORIZONTAL_MULTIPLICATOR == 100000
VERTICAL_MULTIPLICATOR == 150000
TOP_HEIGHT == 150000

\* 1000 sin(a) and 1000 cos(a) / sqrt(3) for a = 0, 6, ..., 90 degrees.
SinQ == <<0, 105, 208, 309, 407, 500, 588, 669, 743, 809, 866, 914, 951, 978,
          995, 1000>>
CosQ == <<577, 574, 565, 549, 527, 500, 467, 429, 386, 339, 289, 235, 178,
          120, 60, 0>>

sin(a) ==
  LET m == a % RADIAN_BOUND IN
  CASE m <= 15 -> SinQ[m + 1]
    [] m <= 30 -> SinQ[31 - m]
    [] m <= 45 -> 0 - SinQ[m - 29]
    [] OTHER -> 0 - SinQ[61 - m]

cos(a) ==
  LET m == a % RADIAN_BOUND IN
  CASE m <= 15 -> CosQ[m + 1]
    [] m <= 30 -> 0 - CosQ[31 - m]
    [] m <= 45 -> 0 - CosQ[m - 29]
    [] OTHER -> CosQ[61 - m]

\* The remainder of the division, with the sign of the dividend (f32 %).
Rem(a, n) == IF a >= 0 THEN a % n ELSE 0 - ((0 - a) % n)

\* Wall::normalized_angle
normalized_angle(a) ==
  IF a < RADIAN_BOUND /\ a >= 0 THEN a
  ELSE LET t == Rem(a, RADIAN_BOUND) IN
       IF t >= 0 THEN t ELSE t + RADIAN_BOUND

\* Wall::in_span
in_span(span, a) ==
  LET normalized == normalized_angle(a) IN
  IF (span[1] * D <= normalized) /\ (normalized < span[2] * D) THEN TRUE
  ELSE LET overflowed == normalized + RADIAN_BOUND IN
       (span[1] * D <= overflowed) /\ (overflowed < span[2] * D)

\* hex center(pos) as a physical position.
hex_physical_center(pos) ==
  << (hex_center(pos)[1] * HORIZONTAL_MULTIPLICATOR) \div 2,
     (hex_center(pos)[2] * 100000) \div 2 >>

\* The physical position at angle a and distance r / 100 from center(pos).
PointAt(pos, a, r) ==
  << hex_physical_center(pos)[1] + r * cos(a),
     hex_physical_center(pos)[2] + r * sin(a) >>

\* hex room_at(pos).  GRADIENT * rel_x is 3 * rel_x in these units.
hex_room_at(p) ==
  LET approx_row == p[2] \div VERTICAL_MULTIPLICATOR
      row_odd == Odd(approx_row)
      approx_col == IF row_odd THEN p[1]
                    ELSE p[1] - (HORIZONTAL_MULTIPLICATOR \div 2)
      rel_y == p[2] - (approx_row * VERTICAL_MULTIPLICATOR)
      rel_x == IF row_odd
                 THEN p[1] - (approx_col - (HORIZONTAL_MULTIPLICATOR \div 2))
                 ELSE p[1] - approx_col
      col == approx_col \div HORIZONTAL_MULTIPLICATOR
  IN IF rel_y < (0 - (3 * rel_x)) + TOP_HEIGHT
       THEN <<col - (IF row_odd THEN 0 ELSE 1), approx_row - 1>>
     ELSE IF rel_y < (3 * rel_x) - TOP_HEIGHT
       THEN <<col + (IF row_odd THEN 1 ELSE 0), approx_row - 1>>
     ELSE <<col, approx_row>>

\* The angle of a vector, (y / x).atan2 in (-pi, pi], rounded down to a step.
Cross(a, v) == (cos(a) * v[2]) - (sin(a) * v[1])
AngleOf(v) ==
  CHOOSE a \in (1 - (RADIAN_BOUND \div 2)) .. (RADIAN_BOUND \div 2) :
    Cross(a, v) >= 0 /\ Cross(a + 1, v) < 0

\* hex wall_pos_at(pos): the room at pos and the first wall of the room whose
\* span holds the angle of pos from the centre of the room.
hex_wall_pos_at(p) ==
  LET pos == hex_room_at(p)
      c == hex_physical_center(pos)
      a == AngleOf(<<p[1] - c[1], p[2] - c[2]>>)
      found == SelectSeq(hex_walls(pos), LAMBDA w : in_span(HexWalls[w + 1].span, a))
  IN WallPos(pos, IF Len(found) > 0 THEN found[1] ELSE NoWall)

\* The angles and distances of the queries.
Angles == (0 - RADIAN_BOUND) .. (2 * RADIAN_BOUND)
Radii == {10, 30, 50}

PhysInit ==
  /\ shape = "Hex"
  /\ rooms = NewRooms /\ nops = 0
  /\ arg \in WallPositionsIn(shape, positions)
  /\ op = "none"
  /\ res = arg
  /\ VorIdle /\ NoWalk /\ NoPoint /\ NoHeat /\ NoTouch

\* tests::room_at: the room at 0.95 from the centre of arg.pos, towards the
\* corner where the span of arg.wall starts.
RoomAt ==
  /\ op = "none"
  /\ angle' = HexWalls[arg.wall + 1].span[1] * D
  /\ radius' = 95
  /\ point' = PointAt(arg.pos, angle', radius')
  /\ res' = WallPos(hex_room_at(point'), NoWall)
  /\ op' = "room_at"
  /\ UNCHANGED <<shape, mazeVars, arg, vorVars, followVars, callVars, heatVars,
               touchVars>>

\* tests::wall_pos_at: the wall position at a point near the centre of arg.pos.
WallPosAt ==
  /\ op = "none"
  /\ \E a \in Angles, r \in Radii :
       /\ angle' = a
       /\ radius' = r
       /\ point' = PointAt(arg.pos, a, r)
       /\ res' = hex_wall_pos_at(point')
  /\ op' = "wall_pos_at"
  /\ UNCHANGED <<shape, mazeVars, arg, vorVars, followVars, callVars, heatVars,
               touchVars>>

PhysNext == RoomAt \/ WallPosAt

PhysSpec == PhysInit /\ [][PhysNext]_vars

\* --------------------------------------- specification: recorded set_open
\* set_open calls on a fresh maze, each recorded with its arguments.
CallInit ==
  /\ shape \in Shapes
  /\ rooms = NewRooms /\ nops = 0
  /\ arg = NoArg /\ op = "none" /\ res = NoArg
  /\ VorIdle /\ NoWalk /\ NoPoint /\ NoHeat /\ NoTouch

SetOpenCall ==
  /\ nops < MaxOps
  /\ \E wp \in WallPositions(shape), v \in BOOLEAN :
       /\ rooms' = set_open(rooms, shape, wp, v)
       /\ arg' = wp
       /\ value' = v
  /\ op' = "set_open"
  /\ nops' = nops + 1
  /\ UNCHANGED <<shape, res, vorVars, followVars, physVars, heatVars,
               touchVars>>

CallNext == SetOpenCall

CallSpec == CallInit /\ [][CallNext]_vars

\* ------------------------------------------------ specification: heat maps
\* Maze::walk(from, to): the rooms of a shortest path over open walls, from
\* and to included; empty when there is no path.
Adjacent(rs, s) ==
  [p \in positions |-> {q \in positions \ {p} : connected(rs, s, p, q)}]

\* The number of steps to the rooms of frontier is d; the rooms of seen are
\* done.  Rooms that are never reached keep the distance NoWall.
RECURSIVE Distances(_, _, _, _, _)
Distances(adj, frontier, seen, d, acc) ==
  IF frontier = {} THEN acc
  ELSE LET next == (UNION {adj[p] : p \in frontier}) \ seen
       IN Distances(adj, next, seen \cup next, d + 1,
                    [p \in positions |-> IF p \in frontier THEN d ELSE acc[p]])

RECURSIVE Path(_, _, _)
Path(adj, dist, from) ==
  IF dist[from] = 0 THEN <<from>>
  ELSE <<from>> \o
       Path(adj, dist, CHOOSE q \in adj[from] : dist[q] = dist[from] - 1)

walk(rs, s, from, to) ==
  LET adj == Adjacent(rs, s)
      dist == Distances(adj, {to}, {to}, 0, [p \in positions |-> NoWall])
  IN IF dist[from] = NoWall THEN <<>> ELSE Path(adj, dist, from)

\* heatmap(maze, positions): result[pos] += 1 for every pos of every path.
Zero == [pos \in positions |-> 0]

RECURSIVE Visit(_, _)
Visit(result, path) ==
  IF path = <<>> THEN result
  ELSE Visit([result EXCEPT ![Head(path)] = result[Head(path)] + 1], Tail(path))

RECURSIVE heatmap_from(_, _, _, _)
heatmap_from(result, rs, s, list) ==
  IF list = <<>> THEN result
  ELSE heatmap_from(Visit(result, walk(rs, s, list[1][1], list[1][2])), rs, s, Tail(list))

heatmap(rs, s, list) == heatmap_from(Zero, rs, s, list)

\* AddableMatrix::add
add(a, b) == [pos \in positions |-> a[pos] + b[pos]]

\* slice::chunks(size): consecutive chunks of size elements, the last one
\* shorter when the length is not a multiple of size.
chunks(list, size) ==
  [i \in 1 .. ((Len(list) + size - 1) \div size) |->
     SubSeq(list, ((i - 1) * size) + 1,
            IF i * size < Len(list) THEN i * size ELSE Len(list))]

\* The pairs heat maps are asked for.
Pairs ==
  {<<(<<0, 0>>), to>> : to \in {<<0, 0>>, <<0, 1>>, <<1, 1>>}}
    \cup {<< <<1, 1>>, <<0, 0>> >>}
PairLists == UNION {[1 .. n -> Pairs] : n \in 0 .. MaxPairs}

HeatInit ==
  /\ shape \in Shapes
  /\ rooms = NewRooms /\ nops = 0
  /\ arg = NoArg /\ op = "none" /\ res = NoArg
  /\ VorIdle /\ NoWalk /\ NoPoint /\ NoHeat /\ NoTouch

\* let collected = positions.collect::<Vec<_>>();
Collect ==
  /\ op = "none"
  /\ pairs' \in PairLists
  /\ threads' \in 1 .. MaxThreads
  /\ op' = "collected"
  /\ UNCHANGED <<shape, mazeVars, arg, res, vorVars, followVars, physVars,
                 callVars, partials, touchVars>>

\* collected.chunks(collected.len() / current_num_threads()) panics when the
\* chunk size is 0.
ChunksPanic ==
  /\ op = "collected"
  /\ Len(pairs) \div threads = 0
  /\ op' = "panic"
  /\ UNCHANGED <<shape, mazeVars, arg, res, vorVars, followVars, physVars,
                 callVars, heatVars, touchVars>>

\* .par_iter().map(|positions| heatmap(maze, positions.iter().cloned()))
Map ==
  /\ op = "collected"
  /\ Len(pairs) \div threads > 0
  /\ LET parts == chunks(pairs, Len(pairs) \div threads)
     IN partials' = [i \in DOMAIN parts |-> heatmap(rooms, shape, parts[i])]
  /\ op' = "mapped"
  /\ UNCHANGED <<shape, mazeVars, arg, res, vorVars, followVars, physVars,
                 callVars, pairs, threads, touchVars>>

\* .reduce(|| HeatMap::new(width, height), add): two of the heat maps are
\* added, in any order and grouping,
Remove(seq, i) == SubSeq(seq, 1, i - 1) \o SubSeq(seq, i + 1, Len(seq))

ReduceAdd ==
  /\ op = "mapped"
  /\ \E i, j \in DOMAIN partials :
       /\ i # j
       /\ partials' = Remove([partials EXCEPT ![i] = add(partials[i], partials[j])], j)
  /\ UNCHANGED <<shape, mazeVars, shapeVars, vorVars, followVars, physVars,
                 callVars, pairs, threads, touchVars>>

\* or the last one is added to the identity and returned.
ReduceDone ==
  /\ op = "mapped"
  /\ Len(partials) = 1
  /\ partials' = <<add(Zero, partials[1])>>
  /\ op' = "done"
  /\ UNCHANGED <<shape, mazeVars, arg, res, vorVars, followVars, physVars,
                 callVars, pairs, threads, touchVars>>

HeatNext ==
  PrepareOpen \/ PrepareClose \/ Collect \/ ChunksPanic \/ Map \/ ReduceAdd \/ ReduceDone

HeatSpec == HeatInit /\ [][HeatNext]_vars

\* ------------------------------------------- specification: clear::initialize
\* The filters passed: the rooms right of and above a corner room, all of
\* them or none, and every other room.
ClearFilters ==
  {{pos \in positions : pos[1] >= a[1] /\ pos[2] <= a[2]} : a \in PosArea}
    \cup {{pos \in positions : (pos[1] + pos[2]) % 2 = 0}}

ClearInit ==
  /\ shape \in Shapes
  /\ rooms = NewRooms /\ nops = 0
  /\ arg = NoArg /\ op = "none" /\ res = NoArg
  /\ VorIdle /\ NoWalk /\ NoPoint /\ NoHeat /\ NoTouch

\* Walls opened before the call, at the border as well.
ClearPrepare ==
  /\ op = "none"
  /\ nops < MaxPrepare
  /\ \E wp \in WallPositions(shape) : rooms' = open(rooms, shape, wp)
  /\ nops' = nops + 1
  /\ UNCHANGED <<shape, shapeVars, vorVars, followVars, physVars, callVars, heatVars,
               touchVars>>

\* maze = clear::initialize(maze, rng, filter)
ClearInitialize ==
  /\ op = "none"
  /\ \E cand \in ClearFilters :
       /\ filter' = cand
       /\ rooms' = clear_initialize(rooms, shape, cand)
  /\ op' = "clear"
  /\ UNCHANGED <<shape, nops, arg, res, pc, methods, stream, ridx, assignment,
               edgemap, todo, mi, conn, run, first,
               followVars, physVars, callVars, heatVars, touchVars>>

ClearNext == ClearPrepare \/ ClearInitialize

ClearSpec == ClearInit /\ [][ClearNext]_vars

\* --------------------------------------- specification: previous and next
\* Wall::next and Wall::previous of a hex wall: its neighbours, clockwise,
\* in the list of the walls of its room (ALL0 or ALL1).
hex_room_walls(wall) == IF \E i \in 1 .. Len(ALL0) : ALL0[i] = wall THEN ALL0 ELSE ALL1

hex_wall_index(wall) ==
  CHOOSE i \in 1 .. Len(hex_room_walls(wall)) : hex_room_walls(wall)[i] = wall

hex_next(wall) ==
  hex_room_walls(wall)[(hex_wall_index(wall) % Len(hex_room_walls(wall))) + 1]

hex_previous(wall) ==
  hex_room_walls(wall)
    [((hex_wall_index(wall) + Len(hex_room_walls(wall)) - 2)
        % Len(hex_room_walls(wall))) + 1]

LinkInit ==
  /\ shape = "Hex"
  /\ rooms = NewRooms /\ nops = 0
  /\ arg \in WallPositions(shape)
  /\ op = "none"
  /\ res = arg
  /\ VorIdle /\ NoWalk /\ NoPoint /\ NoHeat /\ NoTouch

\* wall.next
NextWall ==
  /\ arg' = res
  /\ res' = WallPos(res.pos, hex_next(res.wall))
  /\ op' = "next"
  /\ UNCHANGED <<shape, mazeVars, vorVars, followVars, physVars, callVars, heatVars,
               touchVars>>

\* wall.previous
PreviousWall ==
  /\ arg' = res
  /\ res' = WallPos(res.pos, hex_previous(res.wall))
  /\ op' = "previous"
  /\ UNCHANGED <<shape, mazeVars, vorVars, followVars, physVars, callVars, heatVars,
               touchVars>>

LinkNext == NextWall \/ PreviousWall

LinkSpec == LinkInit /\ [][LinkNext]_vars

\* ------------------------------------------------- specification: surround
\* surround(pos, distance): the top edge, the bottom edge unless distance is
\* 0, then the left and the right edge without their end points.
surround_whole_sides(pos, d) ==
  LET top == [i \in 1 .. ((2 * d) + 1) |-> <<(pos[1] - d) + (i - 1), pos[2] - d>>]
      bottom == IF d # 0
                  THEN [i \in 1 .. ((2 * d) + 1) |-> <<(pos[1] - d) + (i - 1), pos[2] + d>>]
                  ELSE <<>>
      left == [i \in 1 .. ((2 * d) + 1) |-> <<pos[1] - d, (pos[2] - d) + (i - 1)>>]
      right == [i \in 1 .. ((2 * d) + 1) |-> <<pos[1] + d, (pos[2] - d) + (i - 1)>>]
  IN top \o bottom \o left \o right

surround(pos, d) ==
  LET top == [i \in 1 .. ((2 * d) + 1) |-> <<(pos[1] - d) + (i - 1), pos[2] - d>>]
      bottom == IF d # 0
                  THEN [i \in 1 .. ((2 * d) + 1) |-> <<(pos[1] - d) + (i - 1), pos[2] + d>>]
                  ELSE <<>>
      left == [i \in 1 .. ((2 * d) - 1) |-> <<pos[1] - d, (pos[2] - d) + i>>]
      right == [i \in 1 .. ((2 * d) - 1) |-> <<pos[1] + d, (pos[2] - d) + i>>]
  IN top \o bottom \o left \o right

SurroundInit ==
  /\ shape \in Shapes
  /\ rooms = NewRooms /\ nops = 0
  /\ arg = NoArg /\ op = "none" /\ res = NoArg
  /\ VorIdle /\ NoWalk /\ NoPoint /\ NoHeat /\ NoTouch

\* surround(pos, distance).collect()
Surround ==
  /\ \E pos \in PosArea, d \in 0 .. MaxDistance :
       /\ startPos' = pos
       /\ distance' = d
       /\ resultVec' = surround(pos, d)
  /\ op' = "surround"
  /\ UNCHANGED <<shape, mazeVars, arg, res, vorVars, followVars, physVars, callVars,
               heatVars, rect>>

SurroundNext == Surround

SurroundSpec == SurroundInit /\ [][SurroundNext]_vars

\* ------------------------------------------ specification: rooms_touched_by
\* The view boxes passed, as <<corner.x, corner.y, width, height>>, in the
\* units of the physical queries.
ViewBoxes ==
  {0, 50000, 120000} \X {0, 100000, 160000} \X {0, 60000, 250000} \X {0, 90000, 300000}

\* ViewBox::center
viewbox_center(vb) == <<vb[1] + (vb[3] \div 2), vb[2] + (vb[4] \div 2)>>

\* The filter of rooms_touched_by: the centre of the room or the start of
\* the span of one of its walls is inside of the rectangle r.
touched_any(r, pos) == TRUE

touched(r, pos) ==
  LET c == hex_physical_center(pos) IN
  \/ (c[1] >= r[1] /\ c[2] >= r[2] /\ c[1] <= r[3] /\ c[2] <= r[4])
  \/ \E i \in 1 .. Len(hex_walls(pos)) :
       LET p == PointAt(pos, HexWalls[hex_walls(pos)[i] + 1].span[1] * D, 100)
       IN p[1] >= r[1] /\ p[2] >= r[2] /\ p[1] <= r[3] /\ p[2] <= r[4]

TouchInit ==
  /\ shape = "Hex"
  /\ rooms = NewRooms /\ nops = 0
  /\ arg = NoArg /\ op = "none" /\ res = NoArg
  /\ VorIdle /\ NoWalk /\ NoPoint /\ NoHeat /\ NoTouch

\* rooms_touched_by(viewbox), up to the loop.
RoomsTouchedBy ==
  /\ op = "none"
  /\ \E vb \in ViewBoxes :
       /\ rect' = <<vb[1], vb[2], vb[1] + vb[3], vb[2] + vb[4]>>
       /\ startPos' = hex_room_at(viewbox_center(vb))
  /\ distance' = 0
  /\ resultVec' = <<>>
  /\ op' = "rooms_touched_by"
  /\ UNCHANGED <<shape, mazeVars, arg, res, vorVars, followVars, physVars, callVars,
               heatVars>>

\* One iteration of the loop: the ring is filtered and appended; when it
\* adds nothing the result is returned, otherwise the distance grows.
TouchRing ==
  /\ op = "rooms_touched_by"
  /\ distance <= MaxDistance
  /\ LET added == SelectSeq(surround(startPos, distance), LAMBDA pos : touched(rect, pos))
     IN /\ resultVec' = resultVec \o added
        /\ distance' = IF Len(added) = 0 THEN distance ELSE distance + 1
        /\ op' = IF Len(added) = 0 THEN "touched" ELSE "rooms_touched_by"
  /\ UNCHANGED <<shape, mazeVars, arg, res, vorVars, followVars, physVars, callVars,
               heatVars, rect, startPos>>

TouchNext == RoomsTouchedBy \/ TouchRing

TouchSpec == TouchInit /\ [][TouchNext]_vars /\ WF_vars(TouchRing)

\* ------------------------------------------------------------------ claims
\* C1: after any sequence of set_open/open/close calls on a fresh maze, for
\* every wall position (pos, w) with w in walls(pos) whose room and whose
\* back's room are inside the maze, is_open(wp) = is_open(back(wp)).
C1_BackConsistent ==
  \A pos \in positions : \A w \in WallsOf(shape, pos) :
    BothInside(shape, WallPos(pos, w)) =>
      is_open(rooms, WallPos(pos, w)) = is_open(rooms, back(shape, WallPos(pos, w)))

C1_Witness ==
  /\ nops = MaxOps
  /\ \E pos \in positions : \E w \in WallsOf(shape, pos) :
       /\ BothInside(shape, WallPos(pos, w))
       /\ is_open(rooms, WallPos(pos, w))
       /\ is_open(rooms, back(shape, WallPos(pos, w)))

\* C2: back is an involution on wall positions: for every shape, position pos
\* and wall w of walls(pos), back(back((pos, w))) = (pos, w).
C2_BackInvolution ==
  (op = "back" /\ arg.wall \in WallsOf(shape, arg.pos)) => back(shape, res) = arg

C2_Witness ==
  /\ op = "back" /\ shape = "Hex" /\ Odd(arg.pos[2])
  /\ arg.wall \in WallsOf(shape, arg.pos)
  /\ dir(shape, arg.wall)[2] # 0
  /\ back(shape, res) = arg

\* C5: connected(pos1, pos2) is true when pos1 = pos2, otherwise true iff some
\* wall w of walls(pos1) leads from pos1 to pos2 and is open; so a call that
\* opens the wall between two adjacent rooms inside the maze makes them
\* connected and a call that closes it makes them not connected.
Neighbours(s, pos1) ==
  {Towards(s, WallPos(pos1, walls(s, pos1)[i])) : i \in 1..Len(walls(s, pos1))}

C5_ConnectedDef ==
  \A pos1 \in PosArea :
    LET near == Neighbours(shape, pos1) IN
    /\ connected(rooms, shape, pos1, pos1)
    /\ \A pos2 \in near :
         connected(rooms, shape, pos1, pos2) =
           \E w \in WallsOf(shape, pos1) :
             /\ Towards(shape, WallPos(pos1, w)) = pos2
             /\ is_open(rooms, WallPos(pos1, w))
    /\ \A pos2 \in PosArea \ (near \cup {pos1}) :
         ~connected(rooms, shape, pos1, pos2)

C5_OpenClose ==
  \A pos \in positions : rooms'[pos] # rooms[pos] =>
    \A w \in WallsOf(shape, pos) :
      LET wp == WallPos(pos, w) IN
      is_inside(Towards(shape, wp)) =>
        /\ (~is_open(rooms, wp) /\ is_open(rooms', wp)) =>
             /\ connected(rooms', shape, wp.pos, Towards(shape, wp))
             /\ connected(rooms', shape, Towards(shape, wp), wp.pos)
        /\ (is_open(rooms, wp) /\ ~is_open(rooms', wp)) =>
             /\ ~connected(rooms', shape, wp.pos, Towards(shape, wp))
             /\ ~connected(rooms', shape, Towards(shape, wp), wp.pos)

C5_Connected == [](C5_ConnectedDef) /\ [][C5_OpenClose]_vars

C5_Witness ==
  /\ nops = MaxOps
  /\ \E wp \in InnerWallPositions(shape), wq \in InnerWallPositions(shape) :
       /\ connected(rooms, shape, wp.pos, Towards(shape, wp))
       /\ ~connected(rooms, shape, wq.pos, Towards(shape, wq))
       /\ connected(rooms, shape, wq.pos, wq.pos)

\* C8: for Quad and Hex mazes opposite(opposite(w)) = w for every wall w of a
\* room, the opposite being a wall of the same room; for Tri mazes opposite(w)
\* is absent.
C8_Opposite ==
  (op = "opposite" /\ arg.wall \in WallsOf(shape, arg.pos)) =>
    IF shape = "Tri"
      THEN res.wall = NoWall
      ELSE /\ res.wall # NoWall
           /\ res.wall \in WallsOf(shape, arg.pos)
           /\ opposite(shape, res) = arg.wall

C8_Witness ==
  /\ op = "opposite" /\ shape = "Hex" /\ arg.wall \in WallsOf(shape, arg.pos)
  /\ arg.wall \div 4 = 0
  /\ opposite(shape, res) = arg.wall

\* C9: for every hex position pos and wall w of walls(pos), back((pos, w)) is
\* (pos + dir(w), w') with w' a wall of walls(pos + dir(w)), dir(w') the
\* negation of dir(w) and the span of w' the span of w rotated by half a turn.
C9_HexBack ==
  (shape = "Hex" /\ op = "back" /\ arg.wall \in WallsOf("Hex", arg.pos)) =>
    /\ res.pos = <<arg.pos[1] + dir("Hex", arg.wall)[1],
                   arg.pos[2] + dir("Hex", arg.wall)[2]>>
    /\ res.wall \in WallsOf("Hex", res.pos)
    /\ dir("Hex", res.wall) = <<0 - dir("Hex", arg.wall)[1], 0 - dir("Hex", arg.wall)[2]>>
    /\ (HexWalls[res.wall + 1].span[1] % 12) = ((HexWalls[arg.wall + 1].span[1] + 6) % 12)
    /\ (HexWalls[res.wall + 1].span[2] % 12) = ((HexWalls[arg.wall + 1].span[2] + 6) % 12)

C9_Witness ==
  /\ shape = "Hex" /\ op = "back" /\ arg.wall \in WallsOf("Hex", arg.pos)
  /\ ~Odd(arg.pos[2]) /\ Odd(res.pos[2])
  /\ res.wall \in Range(ALL1)

\* C10: every entry of corner_wall_offsets of a hex wall w of walls(pos) names
\* a wall of walls(pos + offset) whose span-start corner point coincides with
\* the span-start corner point of w at pos; corner_walls((pos, w)) is (pos, w)
\* followed by these wall positions in table order.
C10_CornerWalls ==
  (op = "corner_walls" /\ arg.wall \in WallsOf("Hex", arg.pos)) =>
    /\ res.wall \in WallsOf("Hex", res.pos)
    /\ SpanStartPoint(res) = SpanStartPoint(arg)
    /\ corner_walls(arg)[1] = arg
    /\ \E i \in 1 .. Len(HexWalls[arg.wall + 1].corner) :
         /\ corner_walls(arg)[i + 1] = res
         /\ res.pos = <<arg.pos[1] + HexWalls[arg.wall + 1].corner[i][1],
                        arg.pos[2] + HexWalls[arg.wall + 1].corner[i][2]>>
         /\ res.wall = HexWalls[arg.wall + 1].corner[i][3]

\* The rooms a flood fill over open walls reaches from a set of rooms.
RECURSIVE Flood(_, _, _)
Flood(rs, s, seen) ==
  IF {q \in positions : \E p \in seen : connected(rs, s, p, q)} \subseteq seen
    THEN seen
    ELSE Flood(rs, s, seen \cup {q \in positions : \E p \in seen : connected(rs, s, p, q)})

AllClear == \A i \in 1 .. Len(methods) : methods[i] = "clear"

\* C3: after Voronoi initialization of a quadrilateral maze with more than one
\* strategy, each connecting all rooms of its region, and no filter, a flood
\* fill over open walls from any room reaches every other room, for every
\* choice of sites and weights.
C3_SingleComponent ==
  (pc = "done" /\ shape = "Quad" /\ Len(methods) > 1 /\ AllClear /\ filter = positions) =>
    \A start \in positions : Flood(rooms, shape, {start}) = positions

\* C4: after initialize returns, for every pair of distinct regions a, b with
\* a room assigned a adjacent (via a wall and its back) to a room assigned b,
\* both inside the maze, at least one wall between a room of a and a room of b
\* is open.
Boundary(a, b) ==
  {wp \in WallPositionsIn(shape, positions) :
     /\ is_inside(back(shape, wp).pos)
     /\ assignment[wp.pos] = a
     /\ assignment[back(shape, wp).pos] = b}

RegionPair(wp) == <<assignment[wp.pos], assignment[back(shape, wp).pos]>>

CrossWalls ==
  {wp \in InnerWallPositions(shape) : RegionPair(wp)[1] # RegionPair(wp)[2]}

C4_RegionsJoined ==
  pc = "done" =>
    LET cross == CrossWalls IN
    {RegionPair(wp) : wp \in cross} \subseteq
      {RegionPair(wp) :
         wp \in {x \in cross : is_open(rooms, x) /\ is_open(rooms, back(shape, x))}}

C4_Witness ==
  /\ pc = "done" /\ Len(methods) = 2
  /\ Boundary(0, 1) # {}
  /\ Cardinality(conn) = 1
  /\ \E wp \in Boundary(0, 1) : ~is_open(rooms, wp)
  /\ \E wp \in Boundary(0, 1) : is_open(rooms, wp)

\* C6 (as stated): the initializer with exactly one strategy and a filter that
\* accepts every room yields the same maze as that strategy run alone over
\* the whole maze from the same maze and the same random source state.
C6_SameAsAlone ==
  (pc = "done" /\ Len(methods) = 1 /\ filter = positions) =>
    rooms = initialize_filter(methods[1], NewRooms, shape, positions, 0)

\* C6 (amended): the initializer with exactly one strategy and a filter that
\* accepts every room opens no connector and yields the same maze as that
\* strategy run alone over the whole maze from the same maze and the random
\* source advanced past the three outputs drawn for the site.
C6_SameAsAloneAfterSite ==
  (pc = "done" /\ Len(methods) = 1 /\ filter = positions) =>
    /\ conn = {}
    /\ rooms = initialize_filter(methods[1], NewRooms, shape, positions, 3)

C6_Witness ==
  /\ pc = "done" /\ Len(methods) = 1 /\ filter = positions
  /\ methods[1] = "random_wall"
  /\ rooms # NewRooms
  /\ rooms = initialize_filter(methods[1], NewRooms, shape, positions, 3)
  /\ rooms # initialize_filter(methods[1], NewRooms, shape, positions, 0)

\* C7: two runs of initialize with the same maze, strategies, filter and
\* random source outputs return the same assignment matrix and open the same
\* set of connector walls.
C7_Deterministic ==
  (pc = "done" /\ run = 2) =>
    /\ assignment = first.assignment
    /\ conn = first.conn

\* The index of a wall in a sequence of walls.
IndexOf(ws, w) == CHOOSE i \in 1 .. Len(ws) : ws[i] = w

\* The i-th wall after the wall at index k, cyclically.
Cyclic(ws, k, i) == ws[((k - 1 + i) % Len(ws)) + 1]

\* C11: on a freshly constructed maze, follow_wall started at (pos, w) yields
\* one step per wall of room pos, each wall of walls(pos) once, in table order
\* starting at w, all of them in room pos, and finishes exactly when the walk
\* is back at its start.
C11_FollowSingleRoom ==
  (op = "follow_wall" /\ rooms = NewRooms) =>
    LET ws == walls(shape, arg.pos)
        k == IndexOf(ws, arg.wall)
    IN /\ Len(yielded) <= Len(ws)
       /\ \A i \in 1 .. Len(yielded) : yielded[i] = WallPos(arg.pos, Cyclic(ws, k, i - 1))
       /\ res = WallPos(arg.pos, Cyclic(ws, k, Len(yielded)))
       /\ finished = (Len(yielded) = Len(ws))

C11_Witness ==
  /\ op = "follow_wall" /\ rooms = NewRooms /\ finished
  /\ Odd(arg.pos[2]) /\ arg.wall = 5
  /\ Len(yielded) = 6
  /\ yielded[6] = WallPos(arg.pos, 3)

\* C12: on a maze reached by open and close calls, a walk started on a closed
\* wall visits no wall position twice before it is back at its start, and
\* every wall position it yields is a closed wall of a room of the merged area
\* that contains the start room.
C12_FollowPerimeter ==
  op = "follow_wall" =>
    LET area == Flood(rooms, shape, {arg.pos}) IN
    /\ \A i, j \in 1 .. Len(yielded) : yielded[i] = yielded[j] => i = j
    /\ \A i \in 1 .. Len(yielded) :
         /\ ~is_open(rooms, yielded[i])
         /\ yielded[i].pos \in area

\* C13: for every room pos and every wall w of walls(pos), room_at maps the
\* point at 0.95 from center(pos), in the direction where the span of w
\* starts, back to pos.
C13_RoomAtInverse ==
  op = "room_at" => res.pos = arg.pos

\* The walls of a room whose span holds an angle.
InSpan(pos, a) ==
  {w \in WallsOf("Hex", pos) : in_span(HexWalls[w + 1].span, a)}

\* C14: for every room pos and every angle a exactly one wall of walls(pos)
\* satisfies in_span(a), and wall_pos_at of the point at angle a and distance
\* 0.1, 0.3 or 0.5 from center(pos) is pos with that wall.
C14_WallPosAt ==
  op = "wall_pos_at" =>
    /\ Cardinality(InSpan(arg.pos, angle)) = 1
    /\ res.pos = arg.pos
    /\ res.wall \in InSpan(arg.pos, angle)

\* The rooms other than pos are the same in rs1 and rs2, and so are the walls
\* of room pos other than wall.
OnlyWallChanged(rs1, rs2, pos, wall) ==
  /\ \A p \in positions \ {pos} : rs2[p] = rs1[p]
  /\ rs2[pos] \ {wall} = rs1[pos] \ {wall}

\* C15: set_open((pos, w), v) on a wall whose neighbour room is outside the
\* maze sets w in room pos to v and changes nothing else; when pos is outside
\* and the neighbour inside, only the back wall in the neighbour is set to v.
C15_BorderStep ==
  op' = "set_open" =>
    LET wp == arg'
        b == back(shape, arg')
    IN /\ (is_inside(wp.pos) /\ ~is_inside(b.pos)) =>
            /\ is_open(rooms', wp) = value'
            /\ OnlyWallChanged(rooms, rooms', wp.pos, wp.wall)
       /\ (~is_inside(wp.pos) /\ is_inside(b.pos)) =>
            /\ is_open(rooms', b) = value'
            /\ ~is_open(rooms', wp)
            /\ OnlyWallChanged(rooms, rooms', b.pos, b.wall)

C15_BorderSetOpen == [][C15_BorderStep]_vars

C15_Witness ==
  /\ op = "set_open" /\ nops = MaxOps
  /\ ~is_inside(arg.pos) /\ is_inside(back(shape, arg).pos)
  /\ ~value
  /\ \E w \in WallsOf(shape, back(shape, arg).pos) :
       /\ w # back(shape, arg).wall
       /\ ~is_inside(Towards(shape, WallPos(back(shape, arg).pos, w)))
       /\ is_open(rooms, WallPos(back(shape, arg).pos, w))

\* C16: with zero strategies the initializer applies one default strategy,
\* clear, to every room the filter accepts, with no partition: every room has
\* the same assignment value and no connector is opened.
C16_ZeroStrategies ==
  (pc = "done" /\ Len(methods) = 0) =>
    /\ \A p, q \in positions : assignment[p] = assignment[q]
    /\ DOMAIN edgemap = {} /\ conn = {}
    /\ rooms = initialize_filter("clear", NewRooms, shape, filter, 0)

BoundarySets == UNION {edgemap[key] : key \in DOMAIN edgemap}

C18_Edges ==
  (pc \in {"methods", "connect", "done"} /\ mi = 0 /\ conn = {}) =>
    LET regions == 0 .. (Len(methods) - 1)
        shared == [key \in {k \in regions \X regions : k[1] < k[2]} |->
                     Boundary(key[1], key[2])]
        all == BoundarySets
    IN /\ DOMAIN edgemap = {key \in DOMAIN shared : shared[key] # {}}
       /\ \A key \in DOMAIN edgemap : edgemap[key] = shared[key]
       /\ \A wp \in CrossWalls :
            /\ (wp \in all) # (back(shape, wp) \in all)
            /\ Cardinality({key \in DOMAIN edgemap :
                              wp \in edgemap[key] \/ back(shape, wp) \in edgemap[key]}) = 1

C18_Witness ==
  /\ pc = "methods" /\ mi = 0
  /\ <<0, 1>> \in DOMAIN edgemap
  /\ Cardinality(edgemap[<<0, 1>>]) >= 2
  /\ \E x, y \in edgemap[<<0, 1>>] : x.pos # y.pos

\* C19: every iteration of the connector loop takes one boundary set not yet
\* served and opens one wall position that is a member of that set, and
\* nothing else; when initialize returns every boundary set has exactly one
\* connector wall, so the connector walls are as many as the boundary sets.
C19_ConnectorStep ==
  pc = "connect" =>
    \E key \in todo : \E wp \in edgemap[key] :
      /\ todo' = todo \ {key}
      /\ conn' = conn \cup {wp}
      /\ rooms' = open(rooms, shape, wp)

C19_ConnectorDone ==
  pc = "done" =>
    /\ todo = {}
    /\ conn \subseteq BoundarySets
    /\ \A key \in DOMAIN edgemap : Cardinality(conn \cap edgemap[key]) = 1
    /\ Cardinality(conn) = Cardinality(DOMAIN edgemap)

C19_Connector == [](C19_ConnectorDone) /\ [][C19_ConnectorStep]_vars

C19_Witness ==
  /\ pc = "done"
  /\ \E key \in DOMAIN edgemap :
       /\ Cardinality(edgemap[key]) >= 2
       /\ \E wp \in conn \cap edgemap[key] :
            \E other \in edgemap[key] : Rank(other) < Rank(wp)

\* C20: the strategies run in input order, strategy i on the maze the
\* previous one returned (the first on the input maze) with the filter
\* filter(pos) /\ assignment[pos] = i; the assignment and the boundary sets
\* exist before the first strategy runs and no later step changes them.
C20_Step ==
  /\ pc \in {"matrix", "edges"} => (rooms = NewRooms /\ rooms' = rooms)
  /\ pc = "edges" => mi' = 0
  /\ pc = "methods" =>
       /\ mi < Len(methods)
       /\ mi' = mi + 1
       /\ rooms' = initialize_filter(
                     methods[mi + 1], rooms, shape,
                     {pos \in positions : pos \in filter /\ assignment[pos] = mi},
                     ridx)
  /\ pc \in {"methods", "connect"} =>
       (methods' = methods /\ assignment' = assignment /\ edgemap' = edgemap)

C20_StrategyOrder == [][C20_Step]_vars

C20_Witness ==
  /\ pc \in {"connect", "done"} /\ conn = {}
  /\ methods = <<"clear", "random_wall">> /\ mi = 2
  /\ \E p, q \in filter : assignment[p] = 0 /\ assignment[q] = 1
  /\ \E wp \in InnerWallPositions(shape) :
       RegionPair(wp) = <<1, 1>> /\ ~is_open(rooms, wp)
  /\ \A wp \in InnerWallPositions(shape) :
       (RegionPair(wp) = <<0, 0>> /\ wp.pos \in filter /\ back(shape, wp).pos \in filter)
         => is_open(rooms, wp)
  /\ \E wp \in InnerWallPositions(shape) : RegionPair(wp) = <<0, 0>> /\ is_open(rooms, wp)

\* C21: clear::initialize leaves every wall between two rooms of the maze
\* that both pass the filter open on both sides, and leaves the open state
\* of every other wall, those with a side in a rejected room or outside the
\* maze, as it was before the call.
C21_ClearStep ==
  (op = "none" /\ op' = "clear") =>
    \A wp \in WallPositionsIn(shape, positions) :
      LET b == back(shape, wp) IN
      IF wp.pos \in filter' /\ is_inside(b.pos) /\ b.pos \in filter'
        THEN is_open(rooms', wp) /\ is_open(rooms', b)
        ELSE is_open(rooms', wp) = is_open(rooms, wp)

C21_ClearFrame == [][C21_ClearStep]_vars

C21_Witness ==
  /\ op = "clear" /\ nops > 0
  /\ \E wp \in InnerWallPositions(shape) :
       /\ wp.pos \in filter /\ back(shape, wp).pos \notin filter
       /\ is_open(rooms, wp)
  /\ \E wp \in InnerWallPositions(shape) :
       /\ wp.pos \in filter /\ back(shape, wp).pos \notin filter
       /\ ~is_open(rooms, wp)
  /\ \E wp \in InnerWallPositions(shape) :
       /\ wp.pos \in filter /\ back(shape, wp).pos \in filter
       /\ is_open(rooms, wp)

\* C22: a region index i with no room that is both assigned i and accepted
\* by the filter is skipped: strategy i returns the maze it was given, and
\* no boundary set has i in its key.
Unserved(i) == \A pos \in positions : assignment[pos] = i => pos \notin filter

C22_SkipStep ==
  (pc = "methods" /\ Unserved(mi)) => rooms' = rooms

C22_NoBoundary ==
  pc \in {"methods", "connect", "done"} =>
    \A i \in 0 .. (Len(methods) - 1) :
      Unserved(i) => \A key \in DOMAIN edgemap : key[1] # i /\ key[2] # i

C22_EmptyRegion == [](C22_NoBoundary) /\ [][C22_SkipStep]_vars

\* C23: with k workers create_heatmap maps over exactly k chunks of the list
\* of pairs, and the chunks, concatenated in order, are the list.
RECURSIVE Concat(_)
Concat(parts) ==
  IF parts = <<>> THEN <<>> ELSE Head(parts) \o Concat(Tail(parts))

C23_ChunkStep ==
  (op = "collected" /\ op' = "mapped") =>
    /\ Len(partials') = threads
    /\ Concat(chunks(pairs, Len(pairs) \div threads)) = pairs

C23_OneChunkPerWorker == [][C23_ChunkStep]_vars

\* C24: in both hex tables the next links form one cycle through the six
\* walls of a room, previous is the inverse of next, the end of the span of
\* a wall is the start of the span of its next wall modulo 2 pi (and its
\* start the end of its previous wall), and the six spans add up to 2 pi.
RECURSIVE NextTimes(_, _)
NextTimes(wall, n) == IF n = 0 THEN wall ELSE NextTimes(hex_next(wall), n - 1)

SpanStart(wall) == normalized_angle(HexWalls[wall + 1].span[1] * D)
SpanEnd(wall) == normalized_angle(HexWalls[wall + 1].span[2] * D)
SpanLength(wall) == (HexWalls[wall + 1].span[2] - HexWalls[wall + 1].span[1]) * D

RECURSIVE SumLengths(_)
SumLengths(ws) == IF ws = <<>> THEN 0 ELSE SpanLength(Head(ws)) + SumLengths(Tail(ws))

Abs(n) == IF n < 0 THEN 0 - n ELSE n
Chebyshev(p, q) ==
  IF Abs(q[1] - p[1]) > Abs(q[2] - p[2]) THEN Abs(q[1] - p[1]) ELSE Abs(q[2] - p[2])

Ring(pos, d) ==
  {q \in ((pos[1] - d - 1) .. (pos[1] + d + 1)) \X ((pos[2] - d - 1) .. (pos[2] + d + 1)) :
     Chebyshev(pos, q) = d}

C25_Surround ==
  op = "surround" =>
    /\ Range(resultVec) = Ring(startPos, distance)
    /\ \A i, j \in 1 .. Len(resultVec) : resultVec[i] = resultVec[j] => i = j
    /\ Len(resultVec) = IF distance = 0 THEN 1 ELSE 8 * distance

C25_Witness ==
  /\ op = "surround" /\ distance = 2 /\ startPos = <<0, 0>>
  /\ Len(resultVec) = 16
  /\ resultVec[1] = <<0 - 2, 0 - 2>> /\ resultVec[16] = <<2, 1>>

\* C26: rooms_touched_by starts at the room at the centre of the rectangle,
\* takes the rings around it at distances 0, 1, 2, ... and returns at the
\* first ring that adds no room, which it always reaches; no room is in the
\* result twice, and every room of the result has its centre or the start
\* point of the span of one of its walls inside the rectangle, bounds
\* included.
InsideRect(p) == rect[1] <= p[1] /\ p[1] <= rect[3] /\ rect[2] <= p[2] /\ p[2] <= rect[4]

CornerPoints(pos) ==
  {PointAt(pos, HexWalls[w + 1].span[1] * D, 100) : w \in WallsOf("Hex", pos)}

TouchesRect(pos) ==
  InsideRect(hex_physical_center(pos)) \/ \E p \in CornerPoints(pos) : InsideRect(p)

RingAdds(d) == \E pos \in Ring(startPos, d) : TouchesRect(pos)

C26_TouchState ==
  op \in {"rooms_touched_by", "touched"} =>
    /\ \A i, j \in 1 .. Len(resultVec) : resultVec[i] = resultVec[j] => i = j
    /\ \A i \in 1 .. Len(resultVec) :
         TouchesRect(resultVec[i]) /\ Chebyshev(startPos, resultVec[i]) < distance
    /\ \A d \in 0 .. (distance - 1) : RingAdds(d)
    /\ op = "touched" => ~RingAdds(distance)

C26_TouchStep ==
  op = "rooms_touched_by" =>
    /\ startPos' = startPos /\ rect' = rect
    /\ \/ op' = "rooms_touched_by" /\ distance' = distance + 1
       \/ op' = "touched" /\ distance' = distance

C26_RoomsTouchedBy ==
  /\ [](C26_TouchState)
  /\ [][C26_TouchStep]_vars
  /\ (op = "rooms_touched_by") ~> (op = "touched")

C26_Witness ==
  /\ op = "touched" /\ distance >= 2
  /\ \E i \in 1 .. Len(resultVec) :
       /\ ~InsideRect(hex_physical_center(resultVec[i]))
       /\ Chebyshev(startPos, resultVec[i]) = distance - 1
  /\ \E pos \in Ring(startPos, distance - 1) : ~TouchesRect(pos)

\* C27: after any sequence of set_open, open and close calls, walls at the
\* border of the maze included, connected(pos1, pos2) = connected(pos2, pos1)
\* for all positions inside the maze and around it.
C27_ConnectedSymmetric ==
  \A pos1, pos2 \in PosArea :
    connected(rooms, shape, pos1, pos2) = connected(rooms, shape, pos2, pos1)

\* C28: in every maze Methods::initialize builds from a fresh maze, with
\* strategies that honour their filter, every wall of every room the
\* caller's filter rejects is closed, after the connector loop as well.
C28_FilterBounds ==
  \A pos \in positions \ filter : \A w \in WallsOf(shape, pos) :
    ~is_open(rooms, WallPos(pos, w))

\* C29: for every hex wall position wp whose wall is a wall of its room and
\* every wall position of corner_walls(wp), the corner walls of that wall
\* position are a rotation of corner_walls(wp): the same three wall
\* positions in the same cyclic order.
Rotations(seq) ==
  {[i \in 1 .. Len(seq) |-> seq[((i - 1 + k) % Len(seq)) + 1]] : k \in 0 .. (Len(seq) - 1)}

C29_CornerClosed ==
  (op = "corner_walls" /\ arg.wall \in WallsOf(shape, arg.pos)) =>
    corner_walls(res) \in Rotations(corner_walls(arg))

\* C30: for every number of pairs and every number of workers the chunk size
\* create_heatmap passes to chunks is at least 1, and create_heatmap never
\* panics.
C30_ChunkSize ==
  /\ op = "collected" => Len(pairs) \div threads >= 1
  /\ op # "panic"

====
